---- MODULE Spec2Model ----
(***************************************************************************)
(* State-machine model of the evaluation engine of the ADAP API            *)
(* (src/app/routers/evaluation.py, src/app/models.py, src/app/database.py, *)
(* src/app/populate_database.py, src/app/routers/users.py).                *)
(*                                                                         *)
(* The relational store is the tuple of table variables.  Every request is *)
(* served by a worker thread with a session of its own (get_db): a session *)
(* holds pending rows until db.commit(), it never flushes on a query       *)
(* (autoflush=False) and closing it discards what was not committed.       *)
(* Scores are kept in fixed point: a weight w of the source is the integer *)
(* w * 10^4, a sub-factor is in units of 10^-4, an overall score in units  *)
(* of 10^-8.                                                               *)
(***************************************************************************)
EXTENDS Integers, Sequences, FiniteSets, Bags, TLC

(***************************************************************************)
(* Bounds of the model.                                                    *)
(***************************************************************************)
MaxAnswers == 2
MaxEmployeeIds == 2
MaxEvaluations == 2

(***************************************************************************)
(* Seed data: populate_database.py inserts the categories and questions in *)
(* the order of the __main__ block (Desempeno, Apoyo, Autoliderazgo), the  *)
(* primary keys follow the insertion order.                                *)
(***************************************************************************)
desempeno_data ==
    << [group |-> "D1", questions |-> <<"Des_1", "Des_2", "Des_3", "Des_4">>],
       [group |-> "D2", questions |-> <<"Des_5", "Des_6", "Des_7", "Des_8",
                                        "Des_9", "Des_10", "Des_11", "Des_12">>],
       [group |-> "D3", questions |-> <<"Des_13", "Des_14", "Des_15", "Des_16",
                                        "Des_17">>] >>

apoyo_organizacional_data ==
    << [group |-> "A1", questions |-> <<"Apoyo_1", "Apoyo_2", "Apoyo_3",
                                        "Apoyo_4", "Apoyo_5", "Apoyo_6">>] >>

autoliderazgo_data ==
    << [group |-> "E1", questions |-> <<"Auto_10", "Auto_6", "Auto_5", "Auto_3",
                                        "Auto_14", "Auto_7", "Auto_4", "Auto_8",
                                        "Auto_13">>],
       [group |-> "E2", questions |-> <<"Auto_15", "Auto_16", "Auto_17">>],
       [group |-> "E3", questions |-> <<"Auto_1", "Auto_2", "Auto_9", "Auto_11",
                                        "Auto_12", "Auto_18", "Auto_19">>] >>

RECURSIVE FlattenQuestions(_)
FlattenQuestions(cats) ==
    IF cats = <<>> THEN <<>>
    ELSE LET c == Head(cats)
         IN  [i \in 1..Len(c.questions) |->
                 [code |-> c.questions[i], group |-> c.group]]
             \o FlattenQuestions(Tail(cats))

\* The questions table: Question[i] is the row with primary key i.
Question ==
    FlattenQuestions(desempeno_data \o apoyo_organizacional_data \o autoliderazgo_data)

QuestionIds == DOMAIN Question

Codes == {Question[i].code : i \in QuestionIds}

(***************************************************************************)
(* Scoring (evaluation.py 170-274).  rows is the bag of Response rows the  *)
(* session reads; first is the row a query without ORDER BY returns when   *)
(* several rows match: a function from the codes with several distinct     *)
(* stored scores to the score of the row returned.                         *)
(***************************************************************************)
\* The query of the scores without the filter on the assignment.
MatchingScores_any_evaluation(rows, employee_evaluation_id, code) ==
    {r.score : r \in {x \in BagToSet(rows) : Question[x.question_id].code = code}}

MatchingScores(rows, employee_evaluation_id, code) ==
    {r.score : r \in {x \in BagToSet(rows) :
                        /\ x.employee_evaluation_id = employee_evaluation_id
                        /\ Question[x.question_id].code = code}}

AmbiguousCodes(rows, employee_evaluation_id) ==
    {c \in Codes : Cardinality(MatchingScores(rows, employee_evaluation_id, c)) > 1}

FirstRowChoices(rows, employee_evaluation_id) ==
    LET amb == AmbiguousCodes(rows, employee_evaluation_id)
        all == UNION {MatchingScores(rows, employee_evaluation_id, c) : c \in amb}
    IN  {f \in [amb -> all] :
            \A c \in amb : f[c] \in MatchingScores(rows, employee_evaluation_id, c)}

\* The look-up with 1, the lowest score of the scale, for an absent answer.
get_response_score_by_code_default(rows, first, employee_evaluation_id, code) ==
    LET found == MatchingScores(rows, employee_evaluation_id, code)
    IN  IF found = {} THEN 1
        ELSE IF code \in DOMAIN first THEN first[code]
        ELSE CHOOSE s \in found : TRUE

get_response_score_by_code(rows, first, employee_evaluation_id, code) ==
    LET found == MatchingScores(rows, employee_evaluation_id, code)
    IN  IF found = {} THEN 0
        ELSE IF code \in DOMAIN first THEN first[code]
        ELSE CHOOSE s \in found : TRUE

RECURSIVE WeightedSum(_, _, _, _)
WeightedSum(rows, first, employee_evaluation_id, table) ==
    IF table = <<>> THEN 0
    ELSE get_response_score_by_code(rows, first, employee_evaluation_id, Head(table)[1])
            * Head(table)[2]
         + WeightedSum(rows, first, employee_evaluation_id, Tail(table))

F1Table == << <<"Auto_10", 2003>>, <<"Auto_6", 1918>>, <<"Auto_5", 1306>>, <<"Auto_3", 1240>> >>
F2Table == << <<"Auto_14", 137>> >>
F3Table == << <<"Auto_4", 20>> >>
F4Table == << <<"Auto_7", 1666>> >>
F5Table == << <<"Auto_8", 867>>, <<"Auto_13", 1036>> >>
F6Table == << <<"Auto_16", 3726>>, <<"Auto_17", 3551>>, <<"Auto_15", 2721>> >>
F7Table == << <<"Auto_1", 1846>>, <<"Auto_11", 2267>>, <<"Auto_12", 1903>> >>
\* F8 reading Auto_9, a code of F9, instead of Auto_2.
F8Table_Auto_9 == << <<"Auto_9", 641>> >>

F8Table == << <<"Auto_2", 641>> >>
F9Table == << <<"Auto_9", 1846>>, <<"Auto_18", 2267>>, <<"Auto_19", 892>> >>
D1Table == << <<"Des_2", 3270>>, <<"Des_3", 2710>>, <<"Des_1", 2380>>, <<"Des_4", 1620>> >>
D2Table == << <<"Des_8", 1524>>, <<"Des_9", 1750>>, <<"Des_7", 1301>>, <<"Des_11", 1272>>,
              <<"Des_10", 1223>>, <<"Des_12", 1048>>, <<"Des_6", 1045>>, <<"Des_5", 8340>> >>
D3Table == << <<"Des_13", 1882>>, <<"Des_14", 2051>>, <<"Des_15", 2252>>,
              <<"Des_16", 2029>>, <<"Des_17", 1774>> >>
ApoyoTable == << <<"Apoyo_1", 1731>>, <<"Apoyo_2", 1963>>, <<"Apoyo_3", 1983>>,
                 <<"Apoyo_4", 1743>>, <<"Apoyo_5", 1670>>, <<"Apoyo_6", 908>> >>

\* calculate_autoliderazgo with F9 left out of E3.
calculate_autoliderazgo_no_F9(rows, first, id) ==
    LET F1 == WeightedSum(rows, first, id, F1Table)
        F2 == WeightedSum(rows, first, id, F2Table)
        F3 == WeightedSum(rows, first, id, F3Table)
        F4 == WeightedSum(rows, first, id, F4Table)
        F5 == WeightedSum(rows, first, id, F5Table)
        E1 == F1 + F2 + F3 + F4 + F5
        F6 == WeightedSum(rows, first, id, F6Table)
        E2 == F6
        F7 == WeightedSum(rows, first, id, F7Table)
        F8 == WeightedSum(rows, first, id, F8Table)
        F9 == WeightedSum(rows, first, id, F9Table)
        E3 == F7 + F8
    IN  [F1 |-> F1, F2 |-> F2, F3 |-> F3, F4 |-> F4, F5 |-> F5, E1 |-> E1,
         F6 |-> F6, E2 |-> E2, F7 |-> F7, F8 |-> F8, F9 |-> F9, E3 |-> E3,
         overall_selfleadership |-> E1 * 3172 + E2 * 3155 + E3 * 3672]

calculate_autoliderazgo(rows, first, id) ==
    LET F1 == WeightedSum(rows, first, id, F1Table)
        F2 == WeightedSum(rows, first, id, F2Table)
        F3 == WeightedSum(rows, first, id, F3Table)
        F4 == WeightedSum(rows, first, id, F4Table)
        F5 == WeightedSum(rows, first, id, F5Table)
        E1 == F1 + F2 + F3 + F4 + F5
        F6 == WeightedSum(rows, first, id, F6Table)
        E2 == F6
        F7 == WeightedSum(rows, first, id, F7Table)
        F8 == WeightedSum(rows, first, id, F8Table)
        F9 == WeightedSum(rows, first, id, F9Table)
        E3 == F7 + F8 + F9
    IN  [F1 |-> F1, F2 |-> F2, F3 |-> F3, F4 |-> F4, F5 |-> F5, E1 |-> E1,
         F6 |-> F6, E2 |-> E2, F7 |-> F7, F8 |-> F8, F9 |-> F9, E3 |-> E3,
         overall_selfleadership |-> E1 * 3172 + E2 * 3155 + E3 * 3672]

\* calculate_desempeno with Des_5 summed into D3 instead of D2.
calculate_desempeno_Des_5_in_D3(rows, first, id) ==
    LET D1 == WeightedSum(rows, first, id, D1Table)
        D2 == WeightedSum(rows, first, id, SubSeq(D2Table, 1, 7))
        D3 == WeightedSum(rows, first, id, D3Table \o SubSeq(D2Table, 8, 8))
    IN  [D1 |-> D1, D2 |-> D2, D3 |-> D3,
         overall_performance_score |-> D1 * 4817 + D2 * 3936 + D3 * 1246]

calculate_desempeno(rows, first, id) ==
    LET D1 == WeightedSum(rows, first, id, D1Table)
        D2 == WeightedSum(rows, first, id, D2Table)
        D3 == WeightedSum(rows, first, id, D3Table)
    IN  [D1 |-> D1, D2 |-> D2, D3 |-> D3,
         overall_performance_score |-> D1 * 4817 + D2 * 3936 + D3 * 1246]

calculate_apoyo_organizacional(rows, first, id) ==
    WeightedSum(rows, first, id, ApoyoTable)

\* The CalculationResult row built at evaluation.py 338-345.
CalculationResult(rows, first, id) ==
    LET a == calculate_autoliderazgo(rows, first, id)
        d == calculate_desempeno(rows, first, id)
    IN  [employee_evaluation_id |-> id,
         F1 |-> a.F1, F2 |-> a.F2, F3 |-> a.F3, F4 |-> a.F4, F5 |-> a.F5,
         E1 |-> a.E1, F6 |-> a.F6, E2 |-> a.E2, F7 |-> a.F7, F8 |-> a.F8,
         F9 |-> a.F9, E3 |-> a.E3,
         overall_selfleadership |-> a.overall_selfleadership,
         D1 |-> d.D1, D2 |-> d.D2, D3 |-> d.D3,
         overall_performance_score |-> d.overall_performance_score,
         organizational_support_score |-> calculate_apoyo_organizacional(rows, first, id)]


(***************************************************************************)
(* The store and the workers.                                              *)
(***************************************************************************)
VARIABLES
    employees,      \* employees table: employee_id -> [company_id, is_active]
    templates,      \* evaluation_templates rows [id, title, company_id]
    evaluations,    \* employee_evaluations rows
    responses,      \* responses rows, a bag (the primary key is not modelled)
    results,        \* calculation_results rows, a bag
    local,          \* per worker: where its handler stands and its session
    last            \* the response on its way to a client, NoReply when there is none

db == <<employees, templates, evaluations, responses, results>>
vars == <<employees, templates, evaluations, responses, results, local, last>>

Workers == {1, 2}
Companies == {1, 2}
Titles == {"Annual"}
DueDates == {"2024-12-31"}
Scores == {3}

Principals ==
    [user_type : {"company"}, user_id : Companies]
        \cup [user_type : {"employee"}, user_id : DOMAIN employees]

\* Request inputs: every id that can exist under the bounds and one that cannot.
TemplateIdInputs == 1..(Cardinality(Companies) * Cardinality(Titles) + 1)
EvaluationIdInputs == 1..(MaxEvaluations + 1)
EmployeeIdInputs == {1, 2, 9}
QuestionIdInputs == {1, 2, Len(Question) + 1}

RECURSIVE SeqsUpTo(_, _)
SeqsUpTo(S, n) ==
    IF n = 0 THEN {<<>>}
    ELSE LET shorter == SeqsUpTo(S, n - 1)
         IN  shorter \cup {Append(q, x) : q \in shorter, x \in S}

\* AnswerSchema (evaluation.py 62-64): question_id and score, both int.
AnswerSchema == [question_id : QuestionIdInputs, score : Scores]
AnswerLists == SeqsUpTo(AnswerSchema, MaxAnswers)
EmployeeIdLists == SeqsUpTo(EmployeeIdInputs, MaxEmployeeIds)

\* One answer with score 3 for every question of the catalog.
FullAnswers == [i \in QuestionIds |-> [question_id |-> i, score |-> 3]]

NULL == <<>>
Idle == [pc |-> "idle"]
NoReply == [op |-> "none", outcome |-> "none", id |-> 0, pending |-> 0, detail |-> 0]

RECURSIVE SeqToBag(_)
SeqToBag(q) ==
    IF q = <<>> THEN EmptyBag ELSE SetToBag({Head(q)}) (+) SeqToBag(Tail(q))

EvaluationById(id) == {e \in evaluations : e.id = id}

(***************************************************************************)
(* get_db (evaluation.py 20-25): the session is closed when the handler    *)
(* returns or raises; SessionClose is what reaches the store of the rows   *)
(* that were added and not committed: nothing.                             *)
(***************************************************************************)
SessionCloseFlushes(pending) == pending

SessionClose(pending) == <<>>

\* What a query of the session sees: SessionLocal has autoflush=False
\* (database.py 19), so pending rows are not visible to it.
SessionQuery(table, pending) == table

\* No handler is between its first line and its return.
Quiet == \A w \in Workers : local[w] = Idle

Init ==
    /\ employees = (1 :> [company_id |-> 1, is_active |-> TRUE])
                   @@ (2 :> [company_id |-> 2, is_active |-> TRUE])
    /\ templates = {}
    /\ evaluations = {}
    /\ responses = EmptyBag
    /\ results = EmptyBag
    /\ local = [w \in Workers |-> Idle]
    /\ last = NoReply

\* A response: the operation, its outcome, the id the request named, the
\* number of rows the session had been given when the handler ended and the
\* id the detail message of the HTTPException quotes (0 when it quotes none).
RespondDetail(op, outcome, id, pending, detail) ==
    last' = [op |-> op, outcome |-> outcome, id |-> id, pending |-> pending,
             detail |-> detail]

Respond(op, outcome, id, pending) == RespondDetail(op, outcome, id, pending, 0)

Reply(op, outcome, id) == Respond(op, outcome, id, 0)

\* The client receives the response.  A response is delivered before any
\* other step is taken (every handler step waits for last = NoReply), so that
\* last always is the outcome of the step that led to the current state.
\* The handlers that run as one step are taken when no worker is inside a
\* handler: they read tables the stepwise handlers do not write.
Deliver ==
    /\ last # NoReply
    /\ last' = NoReply
    /\ UNCHANGED <<db, local>>


(***************************************************************************)
(* POST /evaluation/submit (evaluation.py 278-362).  The handler takes no  *)
(* current_user: any client may call it.                                   *)
(***************************************************************************)

\* submit_read without the is_completed check of lines 294-299.
submit_read_unchecked(w, evaluation_id) ==
    /\ last = NoReply
    /\ local[w] = Idle
    /\ IF EvaluationById(evaluation_id) = {}
       THEN /\ Reply("submit", "NotFound", evaluation_id)
            /\ UNCHANGED local
       ELSE /\ local' = [local EXCEPT ![w] =
                            [pc |-> "submit_loop", evaluation_id |-> evaluation_id]]
            /\ UNCHANGED last
    /\ UNCHANGED db

\* 286-299: read the assignment, 404 when absent, 400 when completed.
submit_read(w, evaluation_id) ==
    /\ last = NoReply
    /\ local[w] = Idle
    /\ LET found == EvaluationById(evaluation_id)
       IN  IF found = {}
           THEN /\ Reply("submit", "NotFound", evaluation_id)
                /\ UNCHANGED local
           ELSE IF \E e \in found : e.is_completed
           THEN /\ Reply("submit", "AlreadyCompleted", evaluation_id)
                /\ UNCHANGED local
           ELSE /\ local' = [local EXCEPT ![w] =
                                [pc |-> "submit_loop", evaluation_id |-> evaluation_id]]
                /\ UNCHANGED last
    /\ UNCHANGED db

\* 278-282: the route declares evaluation_data and db only, no current_user:
\* whoever sends the request, with or without a token, the handler runs the
\* same lines.
submit_request(w, current_user, evaluation_id) == submit_read(w, evaluation_id)

RECURSIVE submit_loop(_, _, _, _)
RECURSIVE submit_loop_range_checked(_, _, _, _)
RECURSIVE submit_loop_two_pass(_, _, _, _)

\* The loop with the scale of the comment of line 64 enforced on each answer.
submit_loop_range_checked(answers, evaluation_id, table, pending) ==
    IF answers = <<>> THEN [outcome |-> "ok", pending |-> pending, question_id |-> 0]
    ELSE LET answer == Head(answers)
             visible == SessionQuery(table, SeqToBag(pending))
         IN  IF answer.score \notin 1..5
             THEN [outcome |-> "InvalidScore", pending |-> pending,
                   question_id |-> answer.question_id]
             ELSE IF answer.question_id \notin QuestionIds
             THEN [outcome |-> "UnknownQuestion", pending |-> pending,
                   question_id |-> answer.question_id]
             ELSE IF \E r \in BagToSet(visible) :
                        /\ r.employee_evaluation_id = evaluation_id
                        /\ r.question_id = answer.question_id
             THEN [outcome |-> "DuplicateAnswer", pending |-> pending,
                   question_id |-> answer.question_id]
             ELSE submit_loop_range_checked(Tail(answers), evaluation_id, table,
                     Append(pending, [employee_evaluation_id |-> evaluation_id,
                                      question_id |-> answer.question_id,
                                      score |-> answer.score]))

\* The loop with every question id of the batch looked up before any stored
\* answer is.
submit_loop_two_pass(answers, evaluation_id, table, pending) ==
    LET unknown == {i \in DOMAIN answers : answers[i].question_id \notin QuestionIds}
        stored == {i \in DOMAIN answers :
                        \E r \in BagToSet(table) :
                            /\ r.employee_evaluation_id = evaluation_id
                            /\ r.question_id = answers[i].question_id}
        First(S) == CHOOSE i \in S : \A j \in S : i <= j
        Rows(n) == [i \in 1..n |-> [employee_evaluation_id |-> evaluation_id,
                                    question_id |-> answers[i].question_id,
                                    score |-> answers[i].score]]
    IN  IF unknown # {}
        THEN [outcome |-> "UnknownQuestion", pending |-> Rows(First(unknown) - 1),
              question_id |-> answers[First(unknown)].question_id]
        ELSE IF stored # {}
        THEN [outcome |-> "DuplicateAnswer", pending |-> Rows(First(stored) - 1),
              question_id |-> answers[First(stored)].question_id]
        ELSE [outcome |-> "ok", pending |-> Rows(Len(answers)), question_id |-> 0]

\* 302-327: the loop over the answers.  Each answer is checked against the
\* questions table and against the rows the session's query sees, then added
\* to the session as a pending row.  A refusal names the question id of the
\* answer it stopped at (lines 305 and 316).
submit_loop(answers, evaluation_id, table, pending) ==
    IF answers = <<>> THEN [outcome |-> "ok", pending |-> pending, question_id |-> 0]
    ELSE LET answer == Head(answers)
             visible == SessionQuery(table, SeqToBag(pending))
         IN  IF answer.question_id \notin QuestionIds
             THEN [outcome |-> "UnknownQuestion", pending |-> pending,
                   question_id |-> answer.question_id]
             ELSE IF \E r \in BagToSet(visible) :
                        /\ r.employee_evaluation_id = evaluation_id
                        /\ r.question_id = answer.question_id
             THEN [outcome |-> "DuplicateAnswer", pending |-> pending,
                   question_id |-> answer.question_id]
             ELSE submit_loop(Tail(answers), evaluation_id, table,
                     Append(pending, [employee_evaluation_id |-> evaluation_id,
                                      question_id |-> answer.question_id,
                                      score |-> answer.score]))

submit_answers(w, answers) ==
    /\ last = NoReply
    /\ local[w].pc = "submit_loop"
    /\ LET id == local[w].evaluation_id
           r == submit_loop(answers, id, responses, <<>>)
       IN  IF r.outcome = "ok"
           THEN /\ local' = [local EXCEPT ![w] =
                                [pc |-> "submit_commit", evaluation_id |-> id,
                                 pending |-> r.pending]]
                /\ UNCHANGED <<last, responses>>
           ELSE /\ responses' = responses (+) SeqToBag(SessionClose(r.pending))
                /\ local' = [local EXCEPT ![w] = Idle]
                /\ RespondDetail("submit", r.outcome, id, Len(r.pending),
                                 r.question_id)
    /\ UNCHANGED <<employees, templates, evaluations, results>>

\* 330: db.commit() of the pending Response rows.
submit_commit_responses(w) ==
    /\ last = NoReply
    /\ local[w].pc = "submit_commit"
    /\ responses' = responses (+) SeqToBag(local[w].pending)
    /\ local' = [local EXCEPT ![w] =
                    [pc |-> "submit_score", evaluation_id |-> local[w].evaluation_id,
                     answered |-> Len(local[w].pending)]]
    /\ UNCHANGED <<employees, templates, evaluations, results, last>>

\* 333-345: the three calculations over the committed rows.
submit_calculate(w) ==
    /\ last = NoReply
    /\ local[w].pc = "submit_score"
    /\ \E first \in FirstRowChoices(responses, local[w].evaluation_id) :
          local' = [local EXCEPT ![w] =
                       [pc |-> "submit_finish",
                        evaluation_id |-> local[w].evaluation_id,
                        answered |-> local[w].answered,
                        calculation_result |->
                            CalculationResult(responses, first, local[w].evaluation_id)]]
    /\ UNCHANGED <<db, last>>

\* 347-352: add the result, mark the assignment completed, db.commit().
\* datetime.now(timezone.utc) is kept as a logical time per row: a value later
\* than the completion_date the row holds.
Now(e) == IF e.completion_date = NULL THEN 1 ELSE e.completion_date[1] + 1

MarkCompletedNoDate(e) == [e EXCEPT !.is_completed = TRUE]

MarkCompleted(e) ==
    [e EXCEPT !.is_completed = TRUE, !.completion_date = <<Now(e)>>]

\* The commit with the new row replacing the table.
submit_commit_result_overwrite(w) ==
    /\ last = NoReply
    /\ local[w].pc = "submit_finish"
    /\ results' = SetToBag({local[w].calculation_result})
    /\ evaluations' = {IF e.id = local[w].evaluation_id THEN MarkCompleted(e) ELSE e
                          : e \in evaluations}
    /\ local' = [local EXCEPT ![w] = Idle]
    /\ Respond("submit", "ok", local[w].evaluation_id, local[w].answered)
    /\ UNCHANGED <<employees, templates, responses>>

submit_commit_result(w) ==
    /\ last = NoReply
    /\ local[w].pc = "submit_finish"
    /\ results' = results (+) SetToBag({local[w].calculation_result})
    /\ evaluations' = {IF e.id = local[w].evaluation_id THEN MarkCompleted(e) ELSE e
                          : e \in evaluations}
    /\ local' = [local EXCEPT ![w] = Idle]
    /\ Respond("submit", "ok", local[w].evaluation_id, local[w].answered)
    /\ UNCHANGED <<employees, templates, responses>>

\* The worker dies, or the request times out, in the middle of a handler: the
\* session is closed without a commit and the client gets no answer.
Interrupt(w) ==
    /\ last = NoReply
    /\ local[w] # Idle
    /\ local' = [local EXCEPT ![w] = Idle]
    /\ Reply(IF local[w].pc = "template_insert" THEN "template" ELSE "submit",
             "Interrupted",
             IF local[w].pc = "template_insert" THEN local[w].company_id
             ELSE local[w].evaluation_id)
    /\ UNCHANGED db

(***************************************************************************)
(* POST /evaluation/template (evaluation.py 364-410).                      *)
(***************************************************************************)

\* template_check without the look-up of lines 383-393.
template_check_no_lookup(w, current_user, title) ==
    /\ last = NoReply
    /\ local[w] = Idle
    /\ IF current_user.user_type # "company"
       THEN /\ Reply("template", "Forbidden", current_user.user_id)
            /\ UNCHANGED local
       ELSE /\ local' = [local EXCEPT ![w] =
                            [pc |-> "template_insert",
                             company_id |-> current_user.user_id, title |-> title]]
            /\ UNCHANGED last
    /\ UNCHANGED db

\* 373-393: the role check and the look-up of (title, company_id).
template_check(w, current_user, title) ==
    /\ last = NoReply
    /\ local[w] = Idle
    /\ IF current_user.user_type # "company"
       THEN /\ Reply("template", "Forbidden", current_user.user_id)
            /\ UNCHANGED local
       ELSE IF \E t \in templates :
                  t.title = title /\ t.company_id = current_user.user_id
       THEN /\ Reply("template", "DuplicateTemplate", current_user.user_id)
            /\ UNCHANGED local
       ELSE /\ local' = [local EXCEPT ![w] =
                            [pc |-> "template_insert",
                             company_id |-> current_user.user_id, title |-> title]]
            /\ UNCHANGED last
    /\ UNCHANGED db

\* 395-405: insert the row and commit.
template_insert(w) ==
    /\ last = NoReply
    /\ local[w].pc = "template_insert"
    /\ templates' = templates \cup
            {[id |-> Cardinality(templates) + 1, title |-> local[w].title,
              company_id |-> local[w].company_id]}
    /\ local' = [local EXCEPT ![w] = Idle]
    /\ Reply("template", "ok", local[w].company_id)
    /\ UNCHANGED <<employees, evaluations, responses, results>>

(***************************************************************************)
(* GET /evaluation/templates (evaluation.py 412-451).  The reply carries   *)
(* the ids of the rows returned.                                           *)
(***************************************************************************)
TemplatesOfCompany(company_id) == {t \in templates : t.company_id = company_id}

\* The listing that answers 200 with an empty list when there is no row.
get_templates_of_current_company_no_404(current_user) ==
    /\ last = NoReply /\ Quiet
    /\ IF current_user.user_type # "company"
       THEN Reply("templates", "Forbidden", current_user.user_id)
       ELSE RespondDetail("templates", "ok", current_user.user_id, 0,
                {t.id : t \in TemplatesOfCompany(current_user.user_id)})
    /\ UNCHANGED <<db, local>>

get_templates_of_current_company(current_user) ==
    /\ last = NoReply /\ Quiet
    /\ IF current_user.user_type # "company"
       THEN Reply("templates", "Forbidden", current_user.user_id)
       ELSE IF TemplatesOfCompany(current_user.user_id) = {}
       THEN Reply("templates", "NotFound", current_user.user_id)
       ELSE RespondDetail("templates", "ok", current_user.user_id, 0,
                {t.id : t \in TemplatesOfCompany(current_user.user_id)})
    /\ UNCHANGED <<db, local>>

(***************************************************************************)
(* GET /evaluation/incomplete (evaluation.py 605-645): the join of         *)
(* employee_evaluations with evaluation_templates on template_id.          *)
(***************************************************************************)
\* The query without the filter on is_completed.
incomplete_evaluations_unfiltered(company_id) ==
    {e \in evaluations :
        \E t \in templates : t.id = e.template_id /\ t.company_id = company_id}

incomplete_evaluations(company_id) ==
    {e \in evaluations :
        /\ \E t \in templates : t.id = e.template_id /\ t.company_id = company_id
        /\ e.is_completed = FALSE}

get_incomplete_evaluations(current_user) ==
    /\ last = NoReply /\ Quiet
    /\ IF current_user.user_type # "company"
       THEN Reply("incomplete", "Forbidden", current_user.user_id)
       ELSE RespondDetail("incomplete", "ok", current_user.user_id, 0,
                {e.id : e \in incomplete_evaluations(current_user.user_id)})
    /\ UNCHANGED <<db, local>>

(***************************************************************************)
(* GET /evaluation/assigned (evaluation.py 511-548).                       *)
(***************************************************************************)

\* The query with a filter on is_completed added.
assigned_evaluations_open_only(employee_id) ==
    {e \in evaluations : e.employee_id = employee_id /\ e.is_completed = FALSE}

assigned_evaluations(employee_id) ==
    {e \in evaluations : e.employee_id = employee_id}

get_assigned_evaluations(current_user) ==
    /\ last = NoReply /\ Quiet
    /\ IF current_user.user_type # "employee"
       THEN Reply("assigned", "Forbidden", current_user.user_id)
       ELSE RespondDetail("assigned", "ok", current_user.user_id, 0,
                {e.id : e \in assigned_evaluations(current_user.user_id)})
    /\ UNCHANGED <<db, local>>

(***************************************************************************)
(* POST /evaluation/assign (evaluation.py 454-508).                        *)
(***************************************************************************)
RECURSIVE assign_loop(_, _, _, _, _)
assign_loop(employee_ids, company_id, template_id, due_date, pending) ==
    IF employee_ids = <<>>
    THEN [outcome |-> "ok", pending |-> pending, employee_id |-> 0]
    ELSE LET employee_id == Head(employee_ids)
         IN  IF ~ (/\ employee_id \in DOMAIN employees
                   /\ employees[employee_id].company_id = company_id)
             THEN [outcome |-> "NotFound", pending |-> pending,
                   employee_id |-> employee_id]
             ELSE assign_loop(Tail(employee_ids), company_id, template_id, due_date,
                     Append(pending, [employee_id |-> employee_id,
                                      template_id |-> template_id,
                                      due_date |-> due_date,
                                      completion_date |-> NULL,
                                      is_completed |-> FALSE]))

\* db.commit() of pending EmployeeEvaluation rows: the primary keys are
\* handed out in insertion order.
InsertEvaluations(table, pending) ==
    table \cup {[id |-> Cardinality(table) + i,
                 employee_id |-> pending[i].employee_id,
                 template_id |-> pending[i].template_id,
                 due_date |-> pending[i].due_date,
                 completion_date |-> pending[i].completion_date,
                 is_completed |-> pending[i].is_completed] : i \in 1..Len(pending)}

\* The handler with the look-up of the template ahead of the role check.
assign_evaluation_to_employees_lookup_first(current_user, template_id, employee_ids, due_date) ==
    /\ last = NoReply /\ Quiet
    /\ IF ~ \E t \in templates :
                t.id = template_id /\ t.company_id = current_user.user_id
       THEN /\ Reply("assign", "NotFound", template_id)
            /\ UNCHANGED evaluations
       ELSE IF current_user.user_type # "company"
       THEN /\ Reply("assign", "Forbidden", template_id)
            /\ UNCHANGED evaluations
       ELSE LET r == assign_loop(employee_ids, current_user.user_id, template_id,
                                 due_date, <<>>)
            IN  IF r.outcome = "ok"
                THEN /\ Cardinality(evaluations) + Len(r.pending) <= MaxEvaluations
                     /\ evaluations' = InsertEvaluations(evaluations, r.pending)
                     /\ Respond("assign", "ok", template_id, Len(r.pending))
                ELSE /\ evaluations' =
                            InsertEvaluations(evaluations, SessionClose(r.pending))
                     /\ RespondDetail("assign", r.outcome, template_id,
                                      Len(r.pending), r.employee_id)
    /\ UNCHANGED <<employees, templates, responses, results, local>>

assign_evaluation_to_employees(current_user, template_id, employee_ids, due_date) ==
    /\ last = NoReply /\ Quiet
    /\ IF current_user.user_type # "company"
       THEN /\ Reply("assign", "Forbidden", template_id)
            /\ UNCHANGED evaluations
       ELSE IF ~ \E t \in templates :
                    t.id = template_id /\ t.company_id = current_user.user_id
       THEN /\ Reply("assign", "NotFound", template_id)
            /\ UNCHANGED evaluations
       ELSE LET r == assign_loop(employee_ids, current_user.user_id, template_id,
                                 due_date, <<>>)
            IN  IF r.outcome = "ok"
                THEN /\ Cardinality(evaluations) + Len(r.pending) <= MaxEvaluations
                     /\ evaluations' = InsertEvaluations(evaluations, r.pending)
                     /\ Respond("assign", "ok", template_id, Len(r.pending))
                ELSE /\ evaluations' =
                            InsertEvaluations(evaluations, SessionClose(r.pending))
                     /\ RespondDetail("assign", r.outcome, template_id,
                                      Len(r.pending), r.employee_id)
    /\ UNCHANGED <<employees, templates, responses, results, local>>

(***************************************************************************)
(* users.py: the two handlers that write an employees row.                 *)
(***************************************************************************)

\* PUT /user/employee/{employee_id}/deactivate (users.py 264-297).
deactivate_employee(current_user, employee_id) ==
    /\ last = NoReply /\ Quiet
    /\ IF current_user.user_type # "company"
       THEN /\ Reply("deactivate", "Forbidden", employee_id)
            /\ UNCHANGED employees
       ELSE IF ~ (/\ employee_id \in DOMAIN employees
                  /\ employees[employee_id].company_id = current_user.user_id)
       THEN /\ Reply("deactivate", "NotFound", employee_id)
            /\ UNCHANGED employees
       ELSE /\ employees' = [employees EXCEPT ![employee_id].is_active = FALSE]
            /\ Reply("deactivate", "ok", employee_id)
    /\ UNCHANGED <<templates, evaluations, responses, results, local>>

\* UpdateEmployeeRequest (users.py 93-109) declares the fields of the body
\* that reach setattr; of the modelled columns only is_active is among them,
\* a company_id sent by the client is dropped.
UpdateEmployeeRequestWithCompany(row, employee_update) ==
    [row EXCEPT !.is_active = employee_update.is_active,
                !.company_id = employee_update.company_id]

UpdateEmployeeRequest(row, employee_update) ==
    [row EXCEPT !.is_active = employee_update.is_active]

\* PUT /user/update_user (users.py 299-391).  The company branch writes
\* columns of the companies table, none of which is modelled.
update_user(current_user, employee_update) ==
    /\ last = NoReply /\ Quiet
    /\ IF current_user.user_type = "company"
       THEN UNCHANGED employees
       ELSE employees' = [employees EXCEPT ![current_user.user_id] =
                            UpdateEmployeeRequest(@, employee_update)]
    /\ Reply("update_user", "ok", current_user.user_id)
    /\ UNCHANGED <<templates, evaluations, responses, results, local>>

(***************************************************************************)
(* Specifications.                                                         *)
(***************************************************************************)
SubmitStep(w, ids, lists) ==
    \/ \E id \in ids : submit_read(w, id)
    \/ \E answers \in lists : submit_answers(w, answers)
    \/ submit_commit_responses(w)
    \/ submit_calculate(w)
    \/ submit_commit_result(w)

TemplateStep(w, users, titles) ==
    \/ \E u \in users, title \in titles : template_check(w, u, title)
    \/ template_insert(w)

Assign(users, template_ids, lists) ==
    \E u \in users, t \in template_ids, ids \in lists, d \in DueDates :
        assign_evaluation_to_employees(u, t, ids, d)

Deactivate ==
    \E u \in Principals, e \in EmployeeIdInputs : deactivate_employee(u, e)

UpdateUser ==
    \E u \in Principals, body \in [is_active : BOOLEAN, company_id : Companies] :
        update_user(u, body)

\* The service with one request in the store at a time: every handler runs
\* from its first line to its return before the next request is taken.
OneAnswer == <<[question_id |-> 1, score |-> 3]>>

Next ==
    \/ Deliver
    \/ SubmitStep(1, EvaluationIdInputs, {OneAnswer, FullAnswers})
    \/ TemplateStep(1, Principals, Titles)
    \/ Assign(Principals, TemplateIdInputs, EmployeeIdLists)
    \/ Deactivate
    \/ UpdateUser

Spec == Init /\ [][Next]_vars

\* Two clients racing on one assignment: company 1 creates a template and
\* assigns it to its employee once; after that the two workers serve submit
\* requests concurrently, and a handler may be interrupted at any point.
Company1 == {[user_type |-> "company", user_id |-> 1]}

ConcNext ==
    \/ Deliver
    \/ \E w \in Workers : SubmitStep(w, EvaluationIdInputs, AnswerLists)
    \/ \E w \in Workers : Interrupt(w)
    \/ templates = {} /\ TemplateStep(1, Company1, {"Annual"})
    \/ evaluations = {} /\ Assign(Company1, {1}, {<<1>>})

ConcSpec == Init /\ [][ConcNext]_vars

ListTemplates == \E u \in Principals : get_templates_of_current_company(u)

ListIncomplete == \E u \in Principals : get_incomplete_evaluations(u)

\* The template endpoints alone, one request at a time, with two titles.
TwoTitles == {"Annual", "Quarterly"}

TemplateNext ==
    \/ Deliver
    \/ TemplateStep(1, Principals, TwoTitles)
    \/ ListTemplates

TemplateSpec == Init /\ [][TemplateNext]_vars

\* The template endpoints served by two workers at once.
TemplateRaceNext ==
    \/ Deliver
    \/ \E w \in Workers : TemplateStep(w, Principals, Titles)
    \/ ListTemplates

TemplateRaceSpec == Init /\ [][TemplateRaceNext]_vars

\* The clients of the service: the authenticated principals and a client
\* that sends no token.
Anonymous == [user_type |-> "none", user_id |-> 0]
Callers == Principals \cup {Anonymous}
CompanyUsers == {u \in Principals : u.user_type = "company"}

\* The employee an assignment was given to.
OwnsEvaluation(current_user, evaluation_id) ==
    /\ current_user.user_type = "employee"
    /\ \E e \in EvaluationById(evaluation_id) : e.employee_id = current_user.user_id

\* A service in which no employee submits for an assignment of its own:
\* every submit request comes from another employee, a company or a client
\* without a token.
ForeignSubmitNext ==
    \/ Deliver
    \/ \E u \in Callers, id \in EvaluationIdInputs :
            ~ OwnsEvaluation(u, id) /\ submit_request(1, u, id)
    \/ \E answers \in AnswerLists : submit_answers(1, answers)
    \/ submit_commit_responses(1)
    \/ submit_calculate(1)
    \/ submit_commit_result(1)
    \/ TemplateStep(1, CompanyUsers, Titles)
    \/ Assign(CompanyUsers, TemplateIdInputs, EmployeeIdLists)

ForeignSubmitSpec == Init /\ [][ForeignSubmitNext]_vars

(***************************************************************************)
(* The scoring of one submission.  The answers a request carries are a     *)
(* ledger: a function from the codes it answers to their scores.  The      *)
(* initial states are those of a worker that has accepted the answers of   *)
(* a ledger for assignment 1 (after line 327) and is about to commit them. *)
(***************************************************************************)
MaxScore == 5

ScoreRange == 0..MaxScore

TableCodes(table) == {table[i][1] : i \in DOMAIN table}

\* One answered code; any part of the codes of F1 answered; every code
\* answered with the same score.
SingleCodeLedgers == {[c \in {code} |-> score] : code \in Codes, score \in ScoreRange}
PartialLedgers == UNION {[S -> ScoreRange] : S \in SUBSET TableCodes(F1Table)}
UniformLedgers == {[c \in Codes |-> score] : score \in ScoreRange}
Ledgers == SingleCodeLedgers \cup PartialLedgers \cup UniformLedgers

\* The pending Response rows of a ledger, in the order of the question ids.
RECURSIVE LedgerRows(_, _, _)
LedgerRows(ledger, evaluation_id, i) ==
    IF i > Len(Question) THEN <<>>
    ELSE (IF Question[i].code \in DOMAIN ledger
          THEN <<[employee_evaluation_id |-> evaluation_id, question_id |-> i,
                  score |-> ledger[Question[i].code]]>>
          ELSE <<>>) \o LedgerRows(ledger, evaluation_id, i + 1)

ScoreInit ==
    /\ employees = (1 :> [company_id |-> 1, is_active |-> TRUE])
                   @@ (2 :> [company_id |-> 2, is_active |-> TRUE])
    /\ templates = {[id |-> 1, title |-> "Annual", company_id |-> 1]}
    /\ evaluations = {[id |-> 1, employee_id |-> 1, template_id |-> 1,
                       due_date |-> "2024-12-31", completion_date |-> NULL,
                       is_completed |-> FALSE]}
    /\ responses = EmptyBag
    /\ results = EmptyBag
    /\ \E ledger \in Ledgers :
          local = [w \in Workers |->
                     IF w = 1 THEN [pc |-> "submit_commit", evaluation_id |-> 1,
                                    pending |-> LedgerRows(ledger, 1, 1)]
                     ELSE Idle]
    /\ last = NoReply

ScoreNext ==
    \/ Deliver
    \/ submit_commit_responses(1)
    \/ submit_calculate(1)
    \/ submit_commit_result(1)

ScoreSpec == ScoreInit /\ [][ScoreNext]_vars

\* One employee answering its assignment, one request at a time, with two
\* scores to choose from.
TwoScores == {3, 4}
ScoredAnswerLists == SeqsUpTo([question_id : QuestionIdInputs, score : TwoScores], MaxAnswers)

LedgerNext ==
    \/ Deliver
    \/ \E id \in EvaluationIdInputs : submit_read(1, id)
    \/ \E answers \in ScoredAnswerLists : submit_answers(1, answers)
    \/ submit_commit_responses(1)
    \/ submit_calculate(1)
    \/ submit_commit_result(1)
    \/ templates = {} /\ TemplateStep(1, Company1, Titles)
    \/ evaluations = {} /\ Assign(Company1, {1}, {<<1>>})

LedgerSpec == Init /\ [][LedgerNext]_vars

\* One employee answering its assignment with scores off the scale of the
\* questionnaire: AnswerSchema declares score as an int and nothing more.
OffScale == {-1, 6}
RangeAnswerLists ==
    SeqsUpTo([question_id : QuestionIdInputs, score : OffScale \cup Scores], MaxAnswers)

RangeNext ==
    \/ Deliver
    \/ \E id \in EvaluationIdInputs : submit_read(1, id)
    \/ \E answers \in RangeAnswerLists : submit_answers(1, answers)
    \/ submit_commit_responses(1)
    \/ submit_calculate(1)
    \/ submit_commit_result(1)
    \/ templates = {} /\ TemplateStep(1, Company1, Titles)
    \/ evaluations = {} /\ Assign(Company1, {1}, {<<1>>})

RangeSpec == Init /\ [][RangeNext]_vars

\* One client submitting and, when its request is interrupted, submitting
\* again: one request at a time, each of which may be cut short.
RetryNext ==
    \/ Deliver
    \/ SubmitStep(1, EvaluationIdInputs, AnswerLists)
    \/ Interrupt(1)
    \/ templates = {} /\ TemplateStep(1, Company1, Titles)
    \/ evaluations = {} /\ Assign(Company1, {1}, {<<1>>})

RetrySpec == Init /\ [][RetryNext]_vars

\* The endpoints of evaluation.py that a company calls, with the submits of
\* the employees, one request at a time.
ListNext ==
    \/ Deliver
    \/ SubmitStep(1, EvaluationIdInputs, {OneAnswer})
    \/ TemplateStep(1, Principals, Titles)
    \/ Assign(Principals, TemplateIdInputs, EmployeeIdLists)
    \/ ListTemplates
    \/ ListIncomplete

ListSpec == Init /\ [][ListNext]_vars

ListAssigned == \E u \in Principals : get_assigned_evaluations(u)

\* The companies assigning, the employees submitting and listing what they
\* were assigned, one request at a time.
AssignedNext ==
    \/ Deliver
    \/ SubmitStep(1, EvaluationIdInputs, {OneAnswer})
    \/ TemplateStep(1, CompanyUsers, Titles)
    \/ Assign(CompanyUsers, TemplateIdInputs, EmployeeIdLists)
    \/ ListAssigned

AssignedSpec == Init /\ [][AssignedNext]_vars

(***************************************************************************)
(* Properties.                                                             *)
(***************************************************************************)
CompletedIn(table, id) == \E e \in table : e.id = id /\ e.is_completed
Completed(id) == CompletedIn(evaluations, id)

\* The rows of a bag that reference assignment id, and how many there are.
RowsOf(table, id) == {r \in BagToSet(table) : r.employee_evaluation_id = id}
CountOf(table, id) == BagCardinality([r \in RowsOf(table, id) |-> table[r]])
ResponsesOf(id) == RowsOf(responses, id)
ResultCount(id) == CountOf(results, id)
ResponseCountIn(table, id, question_id) ==
    BagCardinality([r \in {x \in RowsOf(table, id) : x.question_id = question_id}
                        |-> table[r]])
ResponseCount(id, question_id) == ResponseCountIn(responses, id, question_id)

SubmitErrors == {"NotFound", "AlreadyCompleted", "UnknownQuestion", "DuplicateAnswer"}

\* A step in which a handler returns its response.
Returns(op) == last = NoReply /\ last'.op = op

\* A submit request that is answered by the lines that read the assignment.
RefusedOnRead == Returns("submit") /\ local' = local

\* C1: for every assignment, is_completed holds iff completion_date is set,
\* iff exactly one CalculationResult row references it, and no row references
\* an assignment that is not completed.
CompletionConsistent ==
    \A e \in evaluations :
        /\ e.is_completed <=> e.completion_date # NULL
        /\ e.is_completed <=> ResultCount(e.id) = 1
        /\ ~ e.is_completed => ResultCount(e.id) = 0

\* C2: at most one Response row exists for any (employee_evaluation_id,
\* question_id) pair.
OneResponsePerQuestion ==
    \A e \in evaluations, q \in QuestionIds : ResponseCount(e.id, q) <= 1

\* C3 as stated: a submit made on an assignment an earlier submit completed,
\* whose questions are answered, is refused with DuplicateAnswer.
SecondSubmitIsDuplicateAnswer ==
    [][(RefusedOnRead /\ Completed(last'.id) /\ ResponsesOf(last'.id) # {})
            => last'.outcome = "DuplicateAnswer"]_vars

\* C3 amended: a successful submit leaves its assignment completed for good,
\* and a submit made on a completed assignment never reaches the loop over
\* the answers: it is refused with AlreadyCompleted and writes nothing.
SecondSubmitIsAlreadyCompleted ==
    [][/\ \A e \in evaluations : e.is_completed => CompletedIn(evaluations', e.id)
       /\ (Returns("submit") /\ last'.outcome = "ok")
            => CompletedIn(evaluations', last'.id)
       /\ \A w \in Workers :
            (local[w] = Idle /\ local'[w].pc = "submit_loop")
                => ~ Completed(local'[w].evaluation_id)
       /\ (RefusedOnRead /\ Completed(last'.id))
            => (last'.outcome = "AlreadyCompleted" /\ UNCHANGED db)]_vars

SecondSubmitRefused ==
    /\ last.op = "submit"
    /\ last.outcome = "AlreadyCompleted"
    /\ ResponsesOf(last.id) # {}

\* C4: a submit that fails on a precondition leaves every table, and with it
\* the assignment's is_completed and completion_date, as it was.
RejectedSubmitWritesNothing ==
    [][(Returns("submit") /\ last'.outcome \in SubmitErrors) => UNCHANGED db]_vars

\* The offending answer came after a valid one, already added to the session.
RejectedAfterValidAnswer ==
    /\ last.op = "submit"
    /\ last.outcome = "DuplicateAnswer"
    /\ last.pending >= 1

\* C5: an assignment is created not completed, only a successful submit
\* completes it, it is never re-opened, its completion_date is written once
\* and a submit made on a completed assignment is refused with
\* AlreadyCompleted.
AssignmentStateMachine ==
    [][/\ \A e \in evaluations : \E f \in evaluations' :
            /\ f.id = e.id
            /\ e.is_completed => f.is_completed
            /\ e.completion_date # NULL => f.completion_date = e.completion_date
            /\ f.is_completed # e.is_completed
                => (last'.op = "submit" /\ last'.outcome = "ok" /\ last'.id = e.id)
       /\ \A f \in evaluations' :
            (~ \E e \in evaluations : e.id = f.id)
                => (~ f.is_completed /\ f.completion_date = NULL)
       /\ (RefusedOnRead /\ Completed(last'.id)) => last'.outcome = "AlreadyCompleted"]_vars

\* C6: when no submit is in progress, an assignment with Response rows has
\* its CalculationResult row and is completed; an interrupted submit leaves
\* no row behind.
SubmitIsAtomic ==
    Quiet => \A e \in evaluations :
                ResponsesOf(e.id) # {} => (e.is_completed /\ ResultCount(e.id) >= 1)

\* C7: of the submits racing on one assignment at most one succeeds: the
\* assignment never has more than one CalculationResult.
SubmitsSerialized == \A e \in evaluations : ResultCount(e.id) <= 1

\* C8: an assign naming one employee adds exactly one assignment, not
\* completed; a successful submit of one answer of score 3 per catalog
\* question leaves exactly those Response rows, the assignment completed with
\* its completion_date set and one CalculationResult; a submit made afterwards
\* is refused with AlreadyCompleted and changes no row.
EndToEnd ==
    [][/\ (Returns("assign") /\ last'.outcome = "ok" /\ last'.pending = 1)
            => \E a \in evaluations' :
                    /\ a \notin evaluations
                    /\ evaluations' = evaluations \cup {a}
                    /\ a.template_id = last'.id
                    /\ ~ a.is_completed
       /\ (Returns("submit") /\ last'.outcome = "ok" /\ last'.pending = Len(Question))
            => /\ \A q \in QuestionIds :
                    /\ ResponseCountIn(responses', last'.id, q) = 1
                    /\ \A r \in RowsOf(responses', last'.id) : r.score = 3
               /\ \E a \in evaluations' :
                    a.id = last'.id /\ a.is_completed /\ a.completion_date # NULL
               /\ CountOf(results', last'.id) = 1
       /\ \A w \in Workers :
            (local[w] = Idle /\ local'[w].pc = "submit_loop")
                => ~ Completed(local'[w].evaluation_id)
       /\ (RefusedOnRead /\ Completed(last'.id))
            => (last'.outcome = "AlreadyCompleted" /\ UNCHANGED db)]_vars

SecondSubmitAfterFullAnswers ==
    /\ last.op = "submit"
    /\ last.outcome = "AlreadyCompleted"
    /\ \A q \in QuestionIds : ResponseCount(last.id, q) = 1
    /\ ResultCount(last.id) = 1

\* The employee and the template of an assignment are of one company.
EmployeeOfTemplateOwner(a) ==
    \E t \in templates :
        /\ t.id = a.template_id
        /\ a.employee_id \in DOMAIN employees
        /\ employees[a.employee_id].company_id = t.company_id

\* C9: an assign that fails commits no assignment row, not even for the
\* valid employees that precede the failing one; an assign that succeeds
\* commits one row per employee id, each of an employee of the company that
\* owns the template.
AssignAllOrNothing ==
    [][Returns("assign") =>
        IF last'.outcome = "ok"
        THEN /\ evaluations \subseteq evaluations'
             /\ Cardinality(evaluations') = Cardinality(evaluations) + last'.pending
             /\ \A a \in evaluations' \ evaluations : EmployeeOfTemplateOwner(a)
        ELSE last'.outcome \in {"NotFound", "Forbidden"} /\ UNCHANGED db]_vars

\* The failing employee id came after a valid one, already added to the
\* session.
AssignFailedAfterValidEmployee ==
    /\ last.op = "assign"
    /\ last.outcome = "NotFound"
    /\ last.detail # 0
    /\ last.pending >= 1

\* C10: every assignment links an employee and a template of the same
\* company, an assign refused with NotFound creates no assignment, and no
\* step changes the company of an employee or of a template.
SameCompany ==
    /\ [](\A a \in evaluations : EmployeeOfTemplateOwner(a))
    /\ [][/\ (Returns("assign") /\ last'.outcome = "NotFound")
                => evaluations' = evaluations
          /\ \A e \in DOMAIN employees :
                employees'[e].company_id = employees[e].company_id
          /\ templates \subseteq templates']_vars

\* A company is refused the assignment of its own template to an employee of
\* another company, in a store that holds assignments and after a handler of
\* users.py has written an employees row.
ForeignEmployeeRefused ==
    /\ last.op = "assign"
    /\ last.outcome = "NotFound"
    /\ last.detail \in DOMAIN employees
    /\ \E t \in templates :
            t.id = last.id /\ t.company_id # employees[last.detail].company_id
    /\ evaluations # {}
    /\ \E e \in DOMAIN employees : ~ employees[e].is_active

\* The rows of a table of templates with a given (company_id, title).
TemplatesNamed(table, company_id, title) ==
    {t \in table : t.company_id = company_id /\ t.title = title}

\* C11: a createTemplate by a company that already owns a template of that
\* title is refused with DuplicateTemplate and writes nothing, and it is
\* refused for no other reason: a title only another company owns is no
\* obstacle, and the insert adds one row of the caller; so exactly one row
\* exists for any (company_id, title) that was created.
DuplicateTemplateRefused ==
    /\ [](\A c \in Companies, title \in TwoTitles :
            Cardinality(TemplatesNamed(templates, c, title)) <= 1)
    /\ [][\A u \in CompanyUsers, title \in TwoTitles :
            /\ (template_check(1, u, title)
                    /\ TemplatesNamed(templates, u.user_id, title) # {})
                => (last'.outcome = "DuplicateTemplate" /\ UNCHANGED db)
            /\ (template_check(1, u, title)
                    /\ TemplatesNamed(templates, u.user_id, title) = {})
                => (/\ local'[1].pc = "template_insert"
                    /\ local'[1].company_id = u.user_id
                    /\ local'[1].title = title)
            /\ (template_insert(1) /\ local[1].company_id = u.user_id
                    /\ local[1].title = title)
                => (/\ last'.outcome = "ok"
                    /\ templates \subseteq templates'
                    /\ Cardinality(templates') = Cardinality(templates) + 1
                    /\ Cardinality(TemplatesNamed(templates', u.user_id, title)) = 1)]_vars

\* The second call of a company is refused while both companies own a
\* template of the one title.
SecondCreateRefused ==
    /\ last.op = "template"
    /\ last.outcome = "DuplicateTemplate"
    /\ \E title \in TwoTitles : \A c \in Companies :
            TemplatesNamed(templates, c, title) # {}

\* C12: (company_id, title) is unique over the rows of evaluation_templates.
TemplateTitleUnique ==
    \A t1, t2 \in templates :
        (t1.company_id = t2.company_id /\ t1.title = t2.title) => t1 = t2

\* C13: where no submit is issued by the employee an assignment belongs to,
\* no Response row and no CalculationResult is written and no assignment is
\* completed.
OnlyOwnerSubmits ==
    /\ responses = EmptyBag
    /\ results = EmptyBag
    /\ \A e \in evaluations : ~ e.is_completed

\* The score stored for a code of an assignment, 0 when none is stored.
StoredScore(id, code) ==
    LET found == {r \in BagToSet(responses) :
                    /\ r.employee_evaluation_id = id
                    /\ Question[r.question_id].code = code}
    IN  IF found = {} THEN 0 ELSE (CHOOSE r \in found : TRUE).score

StoredCodes(id) == {c \in Codes : \E r \in ResponsesOf(id) : Question[r.question_id].code = c}

\* The weighted sum of the stored scores over a table of (code, weight).
RECURSIVE Expected(_, _)
Expected(id, table) ==
    IF table = <<>> THEN 0
    ELSE Head(table)[2] * StoredScore(id, Head(table)[1]) + Expected(id, Tail(table))

SubFactorTables ==
    [F1 |-> F1Table, F2 |-> F2Table, F3 |-> F3Table, F4 |-> F4Table, F5 |-> F5Table,
     F6 |-> F6Table, F7 |-> F7Table, F8 |-> F8Table, F9 |-> F9Table,
     D1 |-> D1Table, D2 |-> D2Table, D3 |-> D3Table,
     organizational_support_score |-> ApoyoTable]

\* C14: whatever part of the codes has a stored Response, the submit ends
\* without an error and each sub-factor is the weighted sum over its codes,
\* absent codes counting 0: a sub-factor none of whose codes is stored is 0;
\* F1 = 0.2003*Auto_10 + 0.1918*Auto_6 + 0.1306*Auto_5 + 0.1240*Auto_3, and
\* with only Auto_10=5, Auto_6=4, Auto_5=3, Auto_3=2 stored, F1 = 2.4085 = E1.
ScoringToleratesAbsent ==
    /\ last.op = "submit" => last.outcome = "ok"
    /\ \A r \in BagToSet(results) :
        LET id == r.employee_evaluation_id
        IN  /\ \A f \in DOMAIN SubFactorTables :
                /\ r[f] = Expected(id, SubFactorTables[f])
                /\ TableCodes(SubFactorTables[f]) \cap StoredCodes(id) = {} => r[f] = 0
            /\ r.F1 = 2003 * StoredScore(id, "Auto_10") + 1918 * StoredScore(id, "Auto_6")
                        + 1306 * StoredScore(id, "Auto_5") + 1240 * StoredScore(id, "Auto_3")
            /\ (/\ StoredCodes(id) = {"Auto_10", "Auto_6", "Auto_5", "Auto_3"}
                /\ StoredScore(id, "Auto_10") = 5 /\ StoredScore(id, "Auto_6") = 4
                /\ StoredScore(id, "Auto_5") = 3 /\ StoredScore(id, "Auto_3") = 2)
                    => (r.F1 = 24085 /\ r.E1 = r.F1)

\* The result of the ledger Auto_10=5, Auto_6=4, Auto_5=3, Auto_3=2 is stored.
PartialLedgerScored ==
    /\ StoredCodes(1) = {"Auto_10", "Auto_6", "Auto_5", "Auto_3"}
    /\ StoredScore(1, "Auto_10") = 5 /\ StoredScore(1, "Auto_6") = 4
    /\ StoredScore(1, "Auto_5") = 3 /\ StoredScore(1, "Auto_3") = 2
    /\ \E r \in BagToSet(results) : r.employee_evaluation_id = 1 /\ r.F1 = 24085

AutoFields == {"F1", "F2", "F3", "F4", "F5", "F6", "F7", "F8", "F9"}
\* The codes of the catalog of one instrument.
CodesOf(data) == {q.code : q \in {FlattenQuestions(data)[i] : i \in DOMAIN FlattenQuestions(data)}}
AutoCodes == CodesOf(autoliderazgo_data)
DesCodes == CodesOf(desempeno_data)
ApoyoCodes == CodesOf(apoyo_organizacional_data)

\* C15: E1 = F1+F2+F3+F4+F5, E2 = F6, E3 = F7+F8+F9 and the overall score is
\* 0.3172*E1 + 0.3155*E2 + 0.3672*E3; a stored Auto_* code with a positive
\* score makes exactly one of F1..F9 positive when it is the only code
\* stored, and the codes of F1..F9 are the 19 Auto_* codes, each in one table.
SelfLeadershipRollUp ==
    /\ \A r \in BagToSet(results) :
        /\ r.E1 = r.F1 + r.F2 + r.F3 + r.F4 + r.F5
        /\ r.E2 = r.F6
        /\ r.E3 = r.F7 + r.F8 + r.F9
        /\ r.overall_selfleadership = 3172 * r.E1 + 3155 * r.E2 + 3672 * r.E3
        /\ \A c \in AutoCodes :
            (StoredCodes(r.employee_evaluation_id) = {c}
                    /\ StoredScore(r.employee_evaluation_id, c) > 0)
                => Cardinality({f \in AutoFields : r[f] > 0}) = 1
    /\ Cardinality(AutoCodes) = 19
    /\ \A c \in AutoCodes :
        Cardinality({f \in AutoFields : c \in TableCodes(SubFactorTables[f])}) = 1
    /\ \A f \in AutoFields :
        /\ TableCodes(SubFactorTables[f]) \subseteq AutoCodes
        /\ Cardinality(TableCodes(SubFactorTables[f])) = Len(SubFactorTables[f])

\* Every code is stored with score 5 and the result is stored.
FullLedgerScored ==
    /\ StoredCodes(1) = Codes
    /\ \A c \in Codes : StoredScore(1, c) = 5
    /\ \E r \in BagToSet(results) : r.employee_evaluation_id = 1 /\ r.E3 > r.F9

\* C16: D1, D2 and D3 are weighted sums over 4, 8 and 5 Des_* codes, no code
\* in two of them, the overall performance score is
\* 0.4817*D1 + 0.3936*D2 + 0.1246*D3, and the organizational support score
\* is one weighted sum over the 6 Apoyo_* codes.
PerformanceRollUp ==
    /\ \A r \in BagToSet(results) :
        LET id == r.employee_evaluation_id
        IN  /\ r.D1 = Expected(id, D1Table)
            /\ r.D2 = Expected(id, D2Table)
            /\ r.D3 = Expected(id, D3Table)
            /\ r.overall_performance_score = 4817 * r.D1 + 3936 * r.D2 + 1246 * r.D3
            /\ r.organizational_support_score = Expected(id, ApoyoTable)
            /\ \A c \in DesCodes :
                (StoredCodes(id) = {c} /\ StoredScore(id, c) > 0)
                    => Cardinality({f \in {"D1", "D2", "D3"} : r[f] > 0}) = 1
            /\ \A c \in ApoyoCodes :
                (StoredCodes(id) = {c} /\ StoredScore(id, c) > 0)
                    => r.organizational_support_score > 0
    /\ Cardinality(TableCodes(D1Table)) = 4 /\ Len(D1Table) = 4
    /\ Cardinality(TableCodes(D2Table)) = 8 /\ Len(D2Table) = 8
    /\ Cardinality(TableCodes(D3Table)) = 5 /\ Len(D3Table) = 5
    /\ TableCodes(D1Table) \cap TableCodes(D2Table) = {}
    /\ TableCodes(D1Table) \cap TableCodes(D3Table) = {}
    /\ TableCodes(D2Table) \cap TableCodes(D3Table) = {}
    /\ TableCodes(D1Table) \cup TableCodes(D2Table) \cup TableCodes(D3Table) = DesCodes
    /\ Cardinality(TableCodes(ApoyoTable)) = 6 /\ Len(ApoyoTable) = 6
    /\ TableCodes(ApoyoTable) = ApoyoCodes

\* Des_5 alone is stored, with a positive score, and its result is stored.
SingleDesCodeScored ==
    /\ StoredCodes(1) = {"Des_5"}
    /\ \E r \in BagToSet(results) : r.employee_evaluation_id = 1 /\ r.D2 > 0

\* C17: for every stored set of Response rows, the scoring of an assignment
\* has one value, whichever matching row each look-up returns.
ScoringDeterministic ==
    \A e \in evaluations :
        Cardinality({CalculationResult(responses, first, e.id) :
                        first \in FirstRowChoices(responses, e.id)}) = 1

EmployeeUsers == Principals \ CompanyUsers

\* C18: on createTemplate, listTemplates, assign and listIncomplete a caller
\* that is not a company gets Forbidden whatever the request names, and
\* nothing is written; a NotFound of these operations is the answer to a
\* request of a company.
ForbiddenBeforeNotFound ==
    [][/\ \A u \in EmployeeUsers :
            /\ \A title \in Titles :
                template_check(1, u, title)
                    => (last'.outcome = "Forbidden" /\ UNCHANGED <<db, local>>)
            /\ get_templates_of_current_company(u)
                    => (last'.outcome = "Forbidden" /\ UNCHANGED db)
            /\ Returns("assign") =>
                \A t \in TemplateIdInputs, ids \in EmployeeIdLists, d \in DueDates :
                    assign_evaluation_to_employees(u, t, ids, d)
                        => (last'.outcome = "Forbidden" /\ UNCHANGED db)
            /\ get_incomplete_evaluations(u)
                    => (last'.outcome = "Forbidden" /\ UNCHANGED db)
       /\ (Returns("assign") /\ last'.outcome = "NotFound")
            => \E u \in CompanyUsers, t \in TemplateIdInputs,
                  ids \in EmployeeIdLists, d \in DueDates :
                    assign_evaluation_to_employees(u, t, ids, d)
       /\ (Returns("templates") /\ last'.outcome = "NotFound")
            => \E u \in CompanyUsers : get_templates_of_current_company(u)
       /\ (Returns("template") \/ Returns("incomplete"))
            => last'.outcome # "NotFound"]_vars

\* An assign naming a template that does not exist is answered Forbidden, in
\* a store that holds templates and assignments.
EmployeeAssignForbidden ==
    /\ last.op = "assign"
    /\ last.outcome = "Forbidden"
    /\ ~ \E t \in templates : t.id = last.id
    /\ templates # {}
    /\ evaluations # {}

\* The ids of the assignments of a table that are not completed and whose
\* template, in a table of templates, is of a company.
IncompleteIds(evs, tmps, company_id) ==
    {e.id : e \in {x \in evs :
                    /\ ~ x.is_completed
                    /\ \E t \in tmps : t.id = x.template_id /\ t.company_id = company_id}}

\* C19: listIncomplete answers a company with exactly the assignments under
\* its templates that are not completed, the empty list included and never
\* an error; an assignment is listed from the commit of its assign, is not
\* listed once its submit has succeeded, is never listed again and is never
\* listed for another company.
IncompleteListing ==
    [][/\ (Returns("incomplete") /\ last'.outcome # "Forbidden")
            => /\ last'.outcome = "ok"
               /\ last'.detail = IncompleteIds(evaluations, templates, last'.id)
               /\ UNCHANGED db
       /\ (Returns("assign") /\ last'.outcome = "ok")
            => \A a \in evaluations' \ evaluations :
                  \E t \in templates :
                      /\ t.id = a.template_id
                      /\ a.id \in IncompleteIds(evaluations', templates', t.company_id)
       /\ (Returns("submit") /\ last'.outcome = "ok")
            => \A c \in Companies :
                  last'.id \notin IncompleteIds(evaluations', templates', c)
       /\ \A c \in Companies, e \in evaluations :
            e.id \notin IncompleteIds(evaluations, templates, c)
                => e.id \notin IncompleteIds(evaluations', templates', c)]_vars

\* A company is answered with an assignment still open after another of its
\* assignments was completed, while the other company has none listed.
ListedAfterCompletion ==
    /\ last.op = "incomplete"
    /\ last.outcome = "ok"
    /\ last.detail # {}
    /\ \E e \in evaluations :
          /\ e.is_completed
          /\ \E t \in templates : t.id = e.template_id /\ t.company_id = last.id
    /\ \E c \in Companies : IncompleteIds(evaluations, templates, c) = {}

AssignedListing ==
    [][Returns("assigned") =>
        /\ UNCHANGED db
        /\ \A u \in Principals :
            get_assigned_evaluations(u)
                => IF u.user_type = "employee"
                   THEN /\ last'.outcome = "ok"
                        /\ last'.detail = {e.id : e \in {x \in evaluations :
                                                    x.employee_id = u.user_id}}
                   ELSE last'.outcome = "Forbidden"]_vars

\* An employee is answered with a completed assignment of its own while the
\* other employee has an assignment too.
CompletedAssignmentListed ==
    /\ last.op = "assigned"
    /\ last.outcome = "ok"
    /\ \E e \in evaluations : e.id \in last.detail /\ e.is_completed
    /\ \E e \in evaluations : e.id \notin last.detail

\* C22: Response and CalculationResult rows are immutable: every committed
\* row is still there, unchanged, after any step; both tables only grow.
RowsImmutable ==
    [][responses \sqsubseteq responses' /\ results \sqsubseteq results']_vars

\* Both assignments have their answers and their result stored, and other
\* operations (a deactivation) have run on the same database.
RowsKeptAcrossOperations ==
    /\ \A id \in 1..2 : ResultCount(id) = 1 /\ ResponsesOf(id) # {}
    /\ \E e \in DOMAIN employees : ~employees[e].is_active

\* C23: a successful assign creates exactly one row per employee named in
\* the call (an employee id occurring more than once in the list still gets
\* one row), each with the call's template_id and due_date, is_completed
\* false and completion_date null.
OneRowPerEmployeeNamed ==
    [][Returns("assign") =>
        \A u \in CompanyUsers, t \in TemplateIdInputs,
           ids \in EmployeeIdLists, d \in DueDates :
            (assign_evaluation_to_employees(u, t, ids, d) /\ last'.outcome = "ok")
                => LET created == evaluations' \ evaluations
                       named == {ids[i] : i \in 1..Len(ids)}
                   IN  /\ evaluations \subseteq evaluations'
                       /\ \A employee_id \in named :
                            Cardinality({e \in created :
                                            e.employee_id = employee_id}) = 1
                       /\ \A e \in created :
                            /\ e.employee_id \in named
                            /\ e.template_id = t
                            /\ e.due_date = d
                            /\ e.is_completed = FALSE
                            /\ e.completion_date = NULL]_vars

\* The weight the scoring gives to a code, and the weighted sum of the stored
\* scores over the seeded questions of one group.
WeightOf(code) ==
    LET f == CHOOSE x \in DOMAIN SubFactorTables : code \in TableCodes(SubFactorTables[x])
        t == SubFactorTables[f]
    IN  t[CHOOSE i \in DOMAIN t : t[i][1] = code][2]

RECURSIVE GroupSum(_, _, _)
GroupSum(id, group, i) ==
    IF i > Len(Question) THEN 0
    ELSE (IF Question[i].group = group
          THEN WeightOf(Question[i].code) * StoredScore(id, Question[i].code)
          ELSE 0) + GroupSum(id, group, i + 1)

\* C24: the codes the weight tables reference are exactly the seeded codes
\* (19 Auto_*, 17 Des_*, 6 Apoyo_*), each seeded code is referenced by
\* exactly one table, and each of E1, E2, E3, D1, D2, D3 is fed by exactly
\* the seeded questions of the category whose group has that name.
TablesMatchSeed ==
    /\ UNION {TableCodes(SubFactorTables[f]) : f \in DOMAIN SubFactorTables} = Codes
    /\ \A f \in DOMAIN SubFactorTables :
            Cardinality(TableCodes(SubFactorTables[f])) = Len(SubFactorTables[f])
    /\ \A c \in Codes :
            Cardinality({f \in DOMAIN SubFactorTables :
                            c \in TableCodes(SubFactorTables[f])}) = 1
    /\ Cardinality(AutoCodes) = 19
    /\ Cardinality(DesCodes) = 17
    /\ Cardinality(ApoyoCodes) = 6
    /\ Cardinality(Codes) = 42
    /\ \A r \in BagToSet(results) :
        \A group \in {"E1", "E2", "E3", "D1", "D2", "D3"} :
            r[group] = GroupSum(r.employee_evaluation_id, group, 1)

\* Auto_2, seeded in the category of group E3, is the only stored answer and
\* feeds E3 alone.
OnlyE3Fed ==
    /\ StoredCodes(1) = {"Auto_2"}
    /\ \E r \in BagToSet(results) :
        /\ r.employee_evaluation_id = 1
        /\ r.E3 = 641 * MaxScore
        /\ r.E1 = 0 /\ r.E2 = 0 /\ r.D1 = 0 /\ r.D2 = 0 /\ r.D3 = 0

\* The same batch with every score replaced by one of the scale.
OnScale(answers) ==
    [i \in DOMAIN answers |-> [question_id |-> answers[i].question_id, score |-> 3]]

UnknownAt(answers, i) == answers[i].question_id \notin QuestionIds
StoredAt(answers, id, i) == ResponseCount(id, answers[i].question_id) > 0
Refusable(answers, id) ==
    {i \in DOMAIN answers : UnknownAt(answers, i) \/ StoredAt(answers, id, i)}

\* C26: submit evaluates its preconditions in a fixed order: NotFound when
\* the assignment is absent; else AlreadyCompleted when it is completed,
\* whatever the batch holds; else the answers are scanned in list order and
\* the request fails at the first answer that is unknown (UnknownQuestion,
\* tested first for that answer) or already stored (DuplicateAnswer), the
\* error naming that answer's question_id.
PreconditionOrder ==
    [][\A w \in Workers :
        /\ \A id \in EvaluationIdInputs :
            submit_read(w, id)
                => IF \A e \in evaluations : e.id # id
                   THEN Returns("submit") /\ last'.outcome = "NotFound"
                   ELSE IF Completed(id)
                   THEN Returns("submit") /\ last'.outcome = "AlreadyCompleted"
                   ELSE last' = NoReply /\ local'[w].pc = "submit_loop"
        /\ \A answers \in AnswerLists :
            submit_answers(w, answers)
                => LET id == local[w].evaluation_id
                       bad == Refusable(answers, id)
                       i == CHOOSE x \in bad : \A y \in bad : x <= y
                   IN  IF bad = {}
                       THEN last' = NoReply /\ local'[w].pc = "submit_commit"
                       ELSE /\ Returns("submit")
                            /\ last'.outcome = IF UnknownAt(answers, i)
                                               THEN "UnknownQuestion"
                                               ELSE "DuplicateAnswer"
                            /\ last'.detail = answers[i].question_id
                            /\ last'.pending = i - 1]_vars

\* A batch whose second answer is to a question already stored for the open
\* assignment is refused with DuplicateAnswer naming that question, after
\* its first answer was accepted.
RefusedAtSecondAnswer ==
    /\ last.op = "submit"
    /\ last.outcome = "DuplicateAnswer"
    /\ last.pending = 1
    /\ ResponseCount(last.id, last.detail) = 1
    /\ ~Completed(last.id)

\* C27: when every stored score of an assignment is in 0..5, each of E1, E2,
\* E3, D1, D2, D3, overall_selfleadership, overall_performance_score and
\* organizational_support_score of its result is in 0..5 (the weights are
\* kept in 1e-4, so the sums are in 1e-4 and the overall scores in 1e-8).
ScoresOnScale ==
    \A r \in BagToSet(results) :
        (\A x \in ResponsesOf(r.employee_evaluation_id) : x.score \in 0..MaxScore)
            => /\ \A f \in {"E1", "E2", "E3", "D1", "D2", "D3",
                            "organizational_support_score"} :
                    r[f] \in 0..(MaxScore * 10000)
               /\ \A f \in {"overall_selfleadership", "overall_performance_score"} :
                    r[f] \in 0..(MaxScore * 10000 * 10000)

\* C28: a submit with an empty answers list on an open assignment succeeds:
\* it stores no Response row and one CalculationResult whose every score is
\* 0, and marks the assignment completed; every later submit for it fails
\* with AlreadyCompleted and writes nothing.
EmptyBatchCompletes ==
    [][/\ (Returns("submit") /\ last'.outcome = "ok" /\ last'.pending = 0)
            => /\ RowsOf(responses', last'.id) = {}
               /\ CountOf(results', last'.id) = 1
               /\ \A r \in RowsOf(results', last'.id) :
                    \A f \in DOMAIN r \ {"employee_evaluation_id"} : r[f] = 0
               /\ CompletedIn(evaluations', last'.id)
       /\ \A answers \in ScoredAnswerLists :
            (submit_answers(1, answers) /\ answers = <<>>)
                => last' = NoReply /\ local'[1].pc = "submit_commit"
       /\ \A id \in EvaluationIdInputs :
            Completed(id)
                => /\ CompletedIn(evaluations', id)
                   /\ submit_read(1, id)
                        => /\ Returns("submit")
                           /\ last'.outcome = "AlreadyCompleted"
                           /\ UNCHANGED db]_vars

\* A submit is refused with AlreadyCompleted for an assignment that was
\* completed by an empty batch: no Response row, one result of zeros.
SubmitAfterEmptyBatch ==
    /\ last.op = "submit"
    /\ last.outcome = "AlreadyCompleted"
    /\ ResponsesOf(last.id) = {}
    /\ ResultCount(last.id) = 1
    /\ \A r \in RowsOf(results, last.id) : r.E1 = 0 /\ r.D2 = 0

\* The Response rows a batch stands for.
BatchRows(answers, id) ==
    {[employee_evaluation_id |-> id, question_id |-> answers[i].question_id,
      score |-> answers[i].score] : i \in DOMAIN answers}

\* C29: every assignment can eventually be completed by resubmitting the
\* same batch, also after a submit that was interrupted after its Response
\* rows were committed: the resubmission of the batch whose rows are the
\* stored rows of the open assignment is not refused, and once accepted the
\* handler's remaining steps complete the assignment.
ResubmitCompletes ==
    [][/\ \A answers \in AnswerLists :
            (/\ submit_answers(1, answers)
             /\ answers # <<>>
             /\ ResponsesOf(local[1].evaluation_id)
                    = BatchRows(answers, local[1].evaluation_id))
                => last' = NoReply /\ local'[1].pc = "submit_commit"
       /\ submit_commit_result(1) => CompletedIn(evaluations', local[1].evaluation_id)
      ]_vars

\* The assignments a step of the submit handler works for.
SubmitPcs == {"submit_loop", "submit_commit", "submit_score", "submit_finish"}
SubmitTargets ==
    {id \in EvaluationIdInputs :
        \/ \E w \in Workers :
            \/ /\ local[w] # Idle /\ local[w].pc \in SubmitPcs
               /\ local[w].evaluation_id = id
               /\ local'[w] # local[w]
            \/ /\ local[w] = Idle /\ local'[w] # Idle
               /\ local'[w].pc = "submit_loop" /\ local'[w].evaluation_id = id
        \/ Returns("submit") /\ last'.id = id}

\* The rows of a table that belong to one assignment, as a bag.
OnlyOf(table, id) == [r \in RowsOf(table, id) |-> table[r]]

\* C30: a submit for assignment A changes nothing of another assignment B
\* (its Response rows, its CalculationResult, is_completed, completion_date),
\* and the scores computed for an assignment depend on its own Response rows
\* only.
SubmitFrame ==
    [][/\ \A a \in SubmitTargets : \A b \in EvaluationIdInputs \ {a} :
            /\ OnlyOf(responses', b) = OnlyOf(responses, b)
            /\ OnlyOf(results', b) = OnlyOf(results, b)
            /\ {e \in evaluations' : e.id = b} = {e \in evaluations : e.id = b}
       /\ submit_calculate(1)
            => LET id == local[1].evaluation_id
               IN  \A first \in FirstRowChoices(responses, id) :
                      CalculationResult(responses, first, id)
                        = CalculationResult(OnlyOf(responses, id), first, id)]_vars

\* Both assignments are completed, one with the whole questionnaire and one
\* with a single answer, each with its own result.
TwoAssignmentsScoredApart ==
    /\ Completed(1) /\ Completed(2)
    /\ \E a, b \in 1..2 :
        /\ StoredCodes(a) = Codes
        /\ StoredCodes(b) = {"Des_1"}
        /\ \E r \in RowsOf(results, b) : r.D1 = 2380 * 3 /\ r.D2 = 0
        /\ \E r \in RowsOf(results, a) : r.D2 = 17503 * 3

====
